---- MODULE Spec2Model ----
(***************************************************************************)
(* A model of the optimisation driver and of the evaluation layer of the   *)
(* optim package (src/optim.go).                                           *)
(*                                                                         *)
(* Floating point values are modelled by small integers; Inf stands for    *)
(* +Inf and is larger than every finite value of the model.  Go slices are *)
(* modelled as functions over 0..len-1, so indexes are the indexes of the  *)
(* source.  A nil *Point is modelled by NilPoint, a nil error by Nil.      *)
(***************************************************************************)
EXTENDS Integers, Sequences, FiniteSets, TLC

(***************************************************************************)
(* Bounds of the model.                                                    *)
(***************************************************************************)
MaxLimit == 2      \* MaxIter, MaxEval, MaxNoImprove range over 0..MaxLimit

Inf == 1000        \* math.Inf(1)
Nil == 0           \* the nil error
NilPos == 0        \* the nil position slice of the zero Point

MaxCalls == MaxLimit + 1   \* cap on the number of Next() calls explored

Min(a, b) == IF a < b THEN a ELSE b

(***************************************************************************)
(* State.                                                                  *)
(***************************************************************************)
VARIABLES
    s,          \* the Solver struct (src/optim.go:25-38)
    meshStep,   \* s.Mesh.Step()
    more,       \* what the last Next() call returned
    calls,      \* history: the number of Next() calls made
    sumN,       \* history: the sum of the counts n the Iterate calls returned
    lowest,     \* history: the lowest-valued point an Iterate call returned
    mode,       \* "next": the user calls Next(); "run": the user called Run()
    runPc,      \* position of Run(): "loop" or "done"
    runErr      \* what Run() returned

solverVars == <<s, meshStep, more, calls, sumN, lowest, mode, runPc, runErr>>

VARIABLES
    ev,             \* the evaluator in use: "serial", "parallel" or "cache"
    continueOnErr,  \* SerialEvaler.ContinueOnErr
    objFail,        \* the positions on which the objective fails
    evPc,           \* "idle", "spawn", "collect" (inside Eval), "returned"
    points,         \* the batch given to the Eval call
    out,            \* the named results of Eval: results, n, err
    panicked,       \* the Eval call ended in a run-time panic
    objCalls,       \* history: objective calls per position in this Eval call
    cache,          \* CacheEvaler.cache: hash -> value
    useCount,       \* CacheEvaler.UseCount
    nEvals,         \* history: the Eval calls made on the CacheEvaler
    objCount,       \* history: the objective calls made through the CacheEvaler
    submitted,      \* history: the positions given to the CacheEvaler
    parIndexes,     \* ParallelEvaler.Eval: the indexes of uniqof
    spawnI,         \* ParallelEvaler.Eval: the index of the spawning loop
    wg,             \* ParallelEvaler.Eval: the counter of the WaitGroup
    ch,             \* ParallelEvaler.Eval: the messages buffered in ch
    chClosed,       \* ParallelEvaler.Eval: ch is closed
    closer,         \* the goroutine that waits and closes: "none", "waiting", "done"
    wk,             \* the worker of each index: "none", "ready", "evaluated",
                    \* "sent", "done"
    wkRes           \* the errpoint perr of each worker

parVars == <<parIndexes, spawnI, wg, ch, chClosed, closer, wk, wkRes>>

evalVars == <<ev, continueOnErr, objFail, evPc, points, out, panicked, objCalls,
              cache, useCount, nEvals, objCount, submitted, parVars>>

VARIABLES
    pop,        \* swarm Iterator.Pop: the particles (src/swarm/swarm.go:233)
    itBest,     \* swarm Iterator.best: the incumbent
    itCount,    \* swarm Iterator.count
    swCfg,      \* Iterator.Vmax, Xtol, Vtol and the mesh given to Iterate
    popMoved,   \* history: the population of the last Iterate before the kills
    swArg,      \* history: the point given to the last AddPoint
    swOut,      \* what the last Iterate returned: best, n, err
    swPanicked  \* an Iterate call ended in a run-time panic

swarmVars == <<pop, itBest, itCount, swCfg, popMoved, swArg, swOut, swPanicked>>

VARIABLES
    ptCurr,     \* pattern Method.Curr: the incumbent (src/pattern/pattern.go:74)
    nsuccess,   \* Method.nsuccess
    ptCount,    \* Method.count
    ptCfg,      \* Method.NsuccessGrow, ev and Searcher, and the objective
    ptStep,     \* the step of the mesh given to Iterate, see StepUnits
    ptOrigin,   \* the origin of that mesh
    poller,     \* Poller: keepdirecs, points, prevhash, prevstep
    ptOut,      \* what the last Iterate returned: best, n, err
    ptPoll,     \* history: what the last Poll was given and what it returned
    ptKind,     \* history: the branch the last Iterate took
    ptStreak,   \* history: the successful polls since the last failed poll
                \* or, if later, since the last NsuccessGrow-th of a run
    ptPanicked  \* an Iterate call ended in a run-time panic

patternVars == <<ptCurr, nsuccess, ptCount, ptCfg, ptStep, ptOrigin, poller,
                 ptOut, ptPoll, ptKind, ptStreak, ptPanicked>>

VARIABLES
    mesh,       \* a Bounded mesh around an Infinite one: Origin, StepSize,
                \* Lower, Upper (src/mesh/project.go:254-261, 321-325)
    near        \* history: the last point given to Nearest and the results

meshVars == <<mesh, near>>

VARIABLES
    logger      \* an ObjectiveLogger's sink W, and what the calls in flight
                \* hold (src/optim.go:285-295)

methodVars == <<swarmVars, patternVars, meshVars, logger>>

vars == <<solverVars, evalVars, methodVars>>

\* The inputs of the driver: errors, objective values (two finite levels and
\* +Inf), positions, evaluation counts, mesh steps and MinStep settings.
ErrVals == {Nil, 1}
PointVals == {0, 1, Inf}
PosVals == {1, 2}
NVals == {0, 1}
StepVals == {0, 1, 2}
MinStepVals == {-1, 0, 1}
Points == [pos : PosVals, val : PointVals]
ZeroPoint == [pos |-> NilPos, val |-> 0]

\* What Method.Iterate may return (src/optim.go:106-115): any point, any
\* evaluation count, with or without an error.
IterateResults == [best : Points, n : NVals, err : ErrVals]

(***************************************************************************)
(* Solver.Next (src/optim.go:51-81).                                       *)
(***************************************************************************)
\* lines 55-57: the incumbent value is set to +Inf on the first call
ResetBest(sv) ==
    IF sv.niter = 0 THEN [sv EXCEPT !.best.val = Inf] ELSE sv

\* Mutant of Improves: a point of equal value replaces the incumbent.
Improves_NotStrict(best, sv) == best.val <= sv.best.val

\* line 65
Improves(best, sv) == best.val < sv.best.val

\* Mutant of Record: the no-improvement counter is not reset on improvement.
Record_NoReset(sv, ret) ==
    LET s1 == ResetBest(sv)
        s2 == [s1 EXCEPT !.err = ret.err,
                         !.neval = s1.neval + ret.n,
                         !.niter = s1.niter + 1,
                         !.noimprove = s1.noimprove + 1]
    IN  IF Improves(ret.best, s2) THEN [s2 EXCEPT !.best = ret.best] ELSE s2

\* lines 61-70: bookkeeping of one iteration
Record(sv, ret) ==
    LET s1 == ResetBest(sv)
        s2 == [s1 EXCEPT !.err = ret.err,
                         !.neval = s1.neval + ret.n,
                         !.niter = s1.niter + 1]
    IN  IF Improves(ret.best, s2)
        THEN [s2 EXCEPT !.best = ret.best, !.noimprove = 0]
        ELSE [s2 EXCEPT !.noimprove = s2.noimprove + 1]

\* Mutant of Continue: the iteration limit is tested off by one.
Continue_OffByOne(sv, step) ==
    /\ (sv.MaxNoImprove = 0 \/ sv.noimprove < sv.MaxNoImprove)
    /\ (sv.MaxIter = 0 \/ sv.niter <= sv.MaxIter)
    /\ (sv.MaxEval = 0 \/ sv.neval < sv.MaxEval)
    /\ (sv.MinStep = 0 \/ step > sv.MinStep)

\* Mutant of Continue: the mesh step is compared to the absolute MinStep.
Continue_AbsMinStep(sv, step) ==
    /\ (sv.MaxNoImprove = 0 \/ sv.noimprove < sv.MaxNoImprove)
    /\ (sv.MaxIter = 0 \/ sv.niter < sv.MaxIter)
    /\ (sv.MaxEval = 0 \/ sv.neval < sv.MaxEval)
    /\ (sv.MinStep = 0 \/ step > (IF sv.MinStep < 0 THEN -sv.MinStep ELSE sv.MinStep))

\* lines 76-79: the stop predicates
Continue(sv, step) ==
    /\ (sv.MaxNoImprove = 0 \/ sv.noimprove < sv.MaxNoImprove)
    /\ (sv.MaxIter = 0 \/ sv.niter < sv.MaxIter)
    /\ (sv.MaxEval = 0 \/ sv.neval < sv.MaxEval)
    /\ (sv.MinStep = 0 \/ step > sv.MinStep)

\* Mutant of NextMore: the error of the iteration is not looked at.
NextMore_IgnoreErr(sv, step) == Continue(sv, step)

\* lines 72-80: the value returned
NextMore(sv, step) ==
    IF sv.err # Nil THEN FALSE ELSE Continue(sv, step)

\* One whole call of Next(): the method iterates (and may resize the mesh),
\* the solver records the iteration and evaluates the stop predicates.
NextCall(ret, step) ==
    /\ s' = Record(s, ret)
    /\ meshStep' = step
    /\ calls' = calls + 1
    /\ sumN' = sumN + ret.n
    /\ lowest' = IF calls = 0 \/ ret.best.val < lowest.val THEN ret.best ELSE lowest
    /\ more' = NextMore(s', step)

\* The calls explored with an arbitrary method are capped.
DoNext(ret, step) ==
    /\ s.niter < MaxCalls
    /\ NextCall(ret, step)

\* A call of Next() by the user.
Next_(ret, step) ==
    /\ mode = "next"
    /\ DoNext(ret, step)
    /\ UNCHANGED <<mode, runPc, runErr>>
    /\ UNCHANGED <<evalVars, methodVars>>

(***************************************************************************)
(* Solver.Run (src/optim.go:45-49): for s.Next() {}; return s.Err()        *)
(***************************************************************************)
\* line 48
RunResult(sv) == sv.err

Run(ret, step) ==
    /\ mode = "run"
    /\ runPc = "loop"
    /\ DoNext(ret, step)
    /\ IF more'
       THEN UNCHANGED <<runPc, runErr>>
       ELSE runPc' = "done" /\ runErr' = RunResult(s')
    /\ UNCHANGED mode
    /\ UNCHANGED <<evalVars, methodVars>>

SolverInit ==
    /\ s \in [MaxIter : 0..MaxLimit, MaxEval : 0..MaxLimit,
              MaxNoImprove : 0..MaxLimit, MinStep : MinStepVals,
              neval : {0}, niter : {0}, noimprove : {0},
              best : {ZeroPoint}, err : {Nil}]
    /\ meshStep = 0
    /\ more = TRUE
    /\ calls = 0
    /\ sumN = 0
    /\ lowest = ZeroPoint
    /\ mode \in {"next", "run"}
    /\ runPc = "loop"
    /\ runErr = Nil

SolverNext ==
    \/ \E ret \in IterateResults, step \in StepVals : Next_(ret, step)
    \/ \E ret \in IterateResults, step \in StepVals : Run(ret, step)

\* The driver before its first call, with no stop limit set.
SolverIdle ==
    /\ s = [MaxIter |-> 0, MaxEval |-> 0, MaxNoImprove |-> 0, MinStep |-> 0,
            neval |-> 0, niter |-> 0, noimprove |-> 0, best |-> ZeroPoint,
            err |-> Nil]
    /\ meshStep = 0
    /\ more = TRUE
    /\ calls = 0
    /\ sumN = 0
    /\ lowest = ZeroPoint
    /\ mode = "next"
    /\ runPc = "loop"
    /\ runErr = Nil

(***************************************************************************)
(* The evaluation layer (src/optim.go:83-279).                             *)
(*                                                                         *)
(* A position is one of 1..NPos (its bit image); a point is a position     *)
(* with a value.  The objective returns ObjValue(pos), or +Inf with the    *)
(* error ObjErr(pos) on the positions where it fails.                      *)
(***************************************************************************)
NPos == 2          \* positions are 1..NPos
MaxLen == 3        \* batches hold 0..MaxLen points
MaxEvals == 2      \* Eval calls made on one CacheEvaler

Pos == 1..NPos
NilPoint == [pos |-> NilPos, val |-> 0]      \* a nil *Point
NewPoint(pos, val) == [pos |-> pos, val |-> val]

\* Slices are functions over 0..len-1.
Length(sl) == Cardinality(DOMAIN sl)
Slice(sl, n) == [i \in 0..(n - 1) |-> sl[i]]           \* sl[:n]
AppendTo(sl, x) == [i \in 0..Length(sl) |-> IF i < Length(sl) THEN sl[i] ELSE x]
Batches == UNION {[0..(l - 1) -> {NewPoint(q, 0) : q \in Pos}] : l \in 0..MaxLen}

\* Point.Clone (lines 92-96)
Clone(p) == NewPoint(p.pos, p.val)

\* Point.Hash (lines 98-104): the SHA-1 digest of the position's bit image,
\* taken to be free of collisions.
Hash(p) == 2 * p.pos + 1

\* The objective (lines 126-133), pure: a value, or +Inf and an error.
ObjValue(pos) == 10 * pos
ObjErr(pos) == pos
Objective(pos) ==
    IF pos \in objFail THEN [val |-> Inf, err |-> ObjErr(pos)]
                       ELSE [val |-> ObjValue(pos), err |-> Nil]

\* uniqof (lines 220-233)
RECURSIVE uniqofLoop(_, _, _, _)
uniqofLoop(pts, i, alreadyhave, indexes) ==
    IF i = Length(pts) THEN indexes
    ELSE LET h == Hash(pts[i])
         IN  IF h \notin DOMAIN alreadyhave
             THEN uniqofLoop(pts, i + 1, alreadyhave @@ (h :> i),
                             [indexes EXCEPT ![i] = i])
             ELSE uniqofLoop(pts, i + 1, alreadyhave,
                             [indexes EXCEPT ![i] = alreadyhave[h]])

\* Mutant of uniqof: no position is recognised as a duplicate.
uniqof_NoDedup(pts) == [i \in DOMAIN pts |-> i]

uniqof(pts) == uniqofLoop(pts, 0, <<>>, [i \in DOMAIN pts |-> 0])

\* fillfromuniq (lines 235-241); cloning a nil *Point panics.
RECURSIVE fillLoop(_, _, _)
fillLoop(indexes, pts, i) ==
    IF i = Length(pts) THEN [points |-> pts, panic |-> FALSE]
    ELSE IF indexes[i] # i
         THEN IF pts[indexes[i]] = NilPoint
              THEN [points |-> pts, panic |-> TRUE]
              ELSE fillLoop(indexes, [pts EXCEPT ![i] = Clone(pts[indexes[i]])], i + 1)
         ELSE fillLoop(indexes, pts, i + 1)

fillfromuniq(indexes, pts) == fillLoop(indexes, pts, 0)

NoCalls == [q \in Pos |-> 0]

(***************************************************************************)
(* SerialEvaler.Eval (lines 188-209).  The loop state st holds the full    *)
(* results slice, n, err, the length of the slice returned and the calls   *)
(* made on the objective.                                                  *)
(***************************************************************************)
\* line 203
StopOnErr(cont, err) == err # Nil /\ ~cont

RECURSIVE serialLoop(_, _, _, _, _)
serialLoop(cont, pts, indexes, i, st) ==
    IF i = Length(pts) THEN [st EXCEPT !.err = Nil]              \* line 208
    ELSE IF indexes[i] # i THEN serialLoop(cont, pts, indexes, i + 1, st)
    ELSE LET o == Objective(pts[i].pos)                            \* line 200
             st1 == [st EXCEPT !.results[i] = NewPoint(pts[i].pos, o.val),
                               !.n = @ + 1,
                               !.err = o.err,
                               !.calls[pts[i].pos] = @ + 1]
         IN  IF StopOnErr(cont, o.err)
             THEN [st1 EXCEPT !.len = i + 1]                       \* line 204
             ELSE serialLoop(cont, pts, indexes, i + 1, st1)

\* The whole call: the loop, then the deferred fillfromuniq on the full
\* results slice, whose storage the returned slice shares.
SerialEval(cont, pts) ==
    LET indexes == uniqof(pts)
        st == serialLoop(cont, pts, indexes, 0,
                         [results |-> [i \in DOMAIN pts |-> NilPoint], n |-> 0,
                          err |-> Nil, len |-> Length(pts), calls |-> NoCalls])
        filled == fillfromuniq(indexes, st.results)
    IN  [results |-> Slice(filled.points, st.len), n |-> st.n, err |-> st.err,
         panic |-> filled.panic, calls |-> st.calls]

NoRet == [results |-> <<>>, n |-> 0, err |-> Nil]

\* A call of SerialEvaler.Eval on a batch.
SerialEvalCall(batch) ==
    /\ ev = "serial"
    /\ evPc = "idle"
    /\ LET r == SerialEval(continueOnErr, batch)
       IN  /\ points' = batch
           /\ panicked' = r.panic
           /\ out' = IF r.panic THEN NoRet
                     ELSE [results |-> r.results, n |-> r.n, err |-> r.err]
           /\ objCalls' = r.calls
    /\ evPc' = "returned"
    /\ UNCHANGED <<ev, continueOnErr, objFail, cache, useCount, nEvals, objCount,
                   submitted, parVars>>
    /\ UNCHANGED <<solverVars, methodVars>>

(***************************************************************************)
(* CacheEvaler.Eval (lines 150-182) around a SerialEvaler.  The points of  *)
(* the batch are pointers: results, newp and the wrapped evaluator's       *)
(* results share them.                                                     *)
(***************************************************************************)
\* Mutant of partitionLoop: a cached +Inf is not taken for a hit.
RECURSIVE partitionLoop_RetryInf(_, _, _, _)
partitionLoop_RetryInf(c, pts, i, st) ==
    IF i = Length(pts) THEN st
    ELSE LET h == Hash(pts[i])
         IN  IF h \in DOMAIN c /\ c[h] # Inf
             THEN partitionLoop_RetryInf(c, pts, i + 1,
                      [st EXCEPT !.results[i].val = c[h], !.use = @ + 1])
             ELSE partitionLoop_RetryInf(c, pts, i + 1,
                      [st EXCEPT !.results[i].val = Inf,
                                 !.fromnew = AppendTo(@, i),
                                 !.newp = AppendTo(@, pts[i])])

\* lines 154-164: cache hits take the cached value, the others are collected
RECURSIVE partitionLoop(_, _, _, _)
partitionLoop(c, pts, i, st) ==
    IF i = Length(pts) THEN st
    ELSE LET h == Hash(pts[i])
         IN  IF h \in DOMAIN c
             THEN partitionLoop(c, pts, i + 1,
                      [st EXCEPT !.results[i].val = c[h], !.use = @ + 1])
             ELSE partitionLoop(c, pts, i + 1,
                      [st EXCEPT !.results[i].val = Inf,
                                 !.fromnew = AppendTo(@, i),
                                 !.newp = AppendTo(@, pts[i])])

\* Mutant of storeLoop: only the first new result is stored.
storeLoop_FirstOnly(c, newresults, i) ==
    IF Length(newresults) = 0 THEN c
    ELSE [h \in DOMAIN c \cup {Hash(newresults[0])} |->
             IF h = Hash(newresults[0]) THEN newresults[0].val ELSE c[h]]

\* lines 167-169
RECURSIVE storeLoop(_, _, _)
storeLoop(c, newresults, i) ==
    IF i = Length(newresults) THEN c
    ELSE storeLoop([h \in DOMAIN c \cup {Hash(newresults[i])} |->
                       IF h = Hash(newresults[i]) THEN newresults[i].val ELSE c[h]],
                   newresults, i + 1)

\* lines 171-173
RECURSIVE copyLoop(_, _, _, _)
copyLoop(results, fromnew, newresults, i) ==
    IF i = Length(newresults) THEN results
    ELSE copyLoop([results EXCEPT ![fromnew[i]].val = newresults[i].val],
                  fromnew, newresults, i + 1)

\* lines 175-179
Shrink(results, fromnew, newresults) ==
    IF Length(fromnew) > 0
    THEN Slice(results, fromnew[Length(newresults) - 1] + 1)
    ELSE results

CacheEval(c, cont, pts) ==
    LET part == partitionLoop(c, pts, 0,
                    [results |-> pts, fromnew |-> <<>>, newp |-> <<>>, use |-> 0])
        inner == SerialEval(cont, part.newp)
        \* line 177 indexes fromnew with len(newresults)-1
        panic == inner.panic
                 \/ (Length(part.fromnew) > 0 /\ Length(inner.results) = 0)
    IN  [results |-> IF panic THEN <<>>
                     ELSE Shrink(copyLoop(part.results, part.fromnew, inner.results, 0),
                                 part.fromnew, inner.results),
         n |-> inner.n, err |-> inner.err, panic |-> panic,
         cache |-> IF inner.panic THEN c ELSE storeLoop(c, inner.results, 0),
         use |-> part.use, calls |-> inner.calls]

RECURSIVE Sum(_, _)
Sum(f, S) == IF S = {} THEN 0
             ELSE LET x == CHOOSE y \in S : TRUE IN f[x] + Sum(f, S \ {x})

\* A call of CacheEvaler.Eval on a batch.
CacheEvalCall(batch) ==
    /\ ev = "cache"
    /\ evPc = "idle"
    /\ nEvals < MaxEvals
    /\ LET r == CacheEval(cache, continueOnErr, batch)
       IN  /\ points' = batch
           /\ panicked' = r.panic
           /\ out' = IF r.panic THEN NoRet
                     ELSE [results |-> r.results, n |-> r.n, err |-> r.err]
           /\ objCalls' = r.calls
           /\ cache' = r.cache
           /\ useCount' = useCount + r.use
           /\ objCount' = objCount + Sum(r.calls, Pos)
    /\ nEvals' = nEvals + 1
    /\ submitted' = submitted \cup {batch[i].pos : i \in DOMAIN batch}
    /\ evPc' = "returned"
    /\ UNCHANGED <<ev, continueOnErr, objFail, parVars>>
    /\ UNCHANGED <<solverVars, methodVars>>


(***************************************************************************)
(* ParallelEvaler.Eval (lines 245-279): the spawning loop, one goroutine   *)
(* per non-duplicate point, the goroutine that closes the channel, and the *)
(* collecting loop, each step of each goroutine an action.                 *)
(***************************************************************************)
NoMsg == [pos |-> NilPos, val |-> 0, index |-> 0, err |-> Nil]
ParIdle ==
    /\ parIndexes = <<>>
    /\ spawnI = 0
    /\ wg = 0
    /\ ch = <<>>
    /\ chClosed = FALSE
    /\ closer = "none"
    /\ wk = <<>>
    /\ wkRes = <<>>

evalFrame == <<ev, continueOnErr, objFail, cache, useCount, nEvals, objCount,
               submitted>>

\* lines 246-248: a call of ParallelEvaler.Eval on a batch
ParallelEvalCall(batch) ==
    /\ ev = "parallel"
    /\ evPc = "idle"
    /\ points' = batch
    /\ parIndexes' = uniqof(batch)
    /\ spawnI' = 0
    /\ wg' = 0
    /\ ch' = <<>>
    /\ chClosed' = FALSE
    /\ closer' = "none"
    /\ wk' = [i \in DOMAIN batch |-> "none"]
    /\ wkRes' = [i \in DOMAIN batch |-> NoMsg]
    /\ out' = NoRet
    /\ panicked' = FALSE
    /\ objCalls' = NoCalls
    /\ evPc' = "spawn"
    /\ UNCHANGED evalFrame
    /\ UNCHANGED <<solverVars, methodVars>>

\* lines 249-262: one iteration of the spawning loop
ParallelSpawn ==
    /\ evPc = "spawn"
    /\ spawnI < Length(points)
    /\ IF parIndexes[spawnI] # spawnI
       THEN UNCHANGED <<wg, wk>>
       ELSE wg' = wg + 1 /\ wk' = [wk EXCEPT ![spawnI] = "ready"]
    /\ spawnI' = spawnI + 1
    /\ UNCHANGED <<parIndexes, ch, chClosed, closer, wkRes, points, out, panicked,
                   objCalls, evPc>>
    /\ UNCHANGED evalFrame
    /\ UNCHANGED <<solverVars, methodVars>>

\* lines 264-269: the closing goroutine is started, results is allocated
ParallelSpawnCloser ==
    /\ evPc = "spawn"
    /\ spawnI = Length(points)
    /\ closer' = "waiting"
    /\ out' = [out EXCEPT !.results = [i \in DOMAIN points |-> NilPoint]]
    /\ evPc' = "collect"
    /\ UNCHANGED <<parIndexes, spawnI, wg, ch, chClosed, wk, wkRes, points, panicked,
                   objCalls>>
    /\ UNCHANGED evalFrame
    /\ UNCHANGED <<solverVars, methodVars>>

\* lines 258-259: a worker calls the objective
WorkerCall(i) ==
    /\ evPc \in {"spawn", "collect"}
    /\ wk[i] = "ready"
    /\ LET o == Objective(points[i].pos)
       IN  wkRes' = [wkRes EXCEPT ![i] = [pos |-> points[i].pos, val |-> o.val,
                                          index |-> i, err |-> o.err]]
    /\ objCalls' = [objCalls EXCEPT ![points[i].pos] = @ + 1]
    /\ wk' = [wk EXCEPT ![i] = "evaluated"]
    /\ UNCHANGED <<parIndexes, spawnI, wg, ch, chClosed, closer, points, out, panicked,
                   evPc>>
    /\ UNCHANGED evalFrame
    /\ UNCHANGED <<solverVars, methodVars>>

\* line 246: the capacity of ch
ChanCap(pts) == Length(pts)

\* line 260: a worker sends its result; sending on a closed channel panics
WorkerSend(i) ==
    /\ evPc \in {"spawn", "collect"}
    /\ wk[i] = "evaluated"
    /\ ~panicked
    /\ IF chClosed
       THEN panicked' = TRUE /\ UNCHANGED <<ch, wk, wkRes>>
       ELSE /\ Len(ch) < ChanCap(points)
            /\ ch' = Append(ch, wkRes[i])
            /\ wk' = [wk EXCEPT ![i] = "sent"]
            /\ wkRes' = [wkRes EXCEPT ![i] = NoMsg]
            /\ UNCHANGED panicked
    /\ UNCHANGED <<parIndexes, spawnI, wg, chClosed, closer, points, out, objCalls, evPc>>
    /\ UNCHANGED evalFrame
    /\ UNCHANGED <<solverVars, methodVars>>

\* line 257: the deferred wg.Done() of a worker
WorkerDone(i) ==
    /\ evPc \in {"spawn", "collect"}
    /\ wk[i] = "sent"
    /\ wg' = wg - 1
    /\ wk' = [wk EXCEPT ![i] = "done"]
    /\ UNCHANGED <<parIndexes, spawnI, ch, chClosed, closer, wkRes, points, out,
                   panicked, objCalls, evPc>>
    /\ UNCHANGED evalFrame
    /\ UNCHANGED <<solverVars, methodVars>>

\* Mutant of WaitReturns: the channel is closed without waiting.
WaitReturns_NoWait(count) == TRUE

\* line 265: wg.Wait() returns when the counter is zero
WaitReturns(count) == count = 0

\* lines 265-266: the closing goroutine
CloserClose ==
    /\ evPc = "collect"
    /\ closer = "waiting"
    /\ WaitReturns(wg)
    /\ chClosed' = TRUE
    /\ closer' = "done"
    /\ UNCHANGED <<parIndexes, spawnI, wg, ch, wk, wkRes, points, out, panicked,
                   objCalls, evPc>>
    /\ UNCHANGED evalFrame
    /\ UNCHANGED <<solverVars, methodVars>>

\* Mutant of RecvIndex: results are stored in order of arrival.
RecvIndex_Arrival(p, n) == n

\* line 272: the slot of results a received message goes to
RecvIndex(p, n) == p.index

\* lines 270-276: the collecting loop receives one message
ParallelReceive ==
    /\ evPc = "collect"
    /\ ~panicked
    /\ ch # <<>>
    /\ LET p == Head(ch)
       IN  out' = [results |-> [out.results EXCEPT
                                   ![RecvIndex(p, out.n)] = NewPoint(p.pos, p.val)],
                   n |-> out.n + 1,
                   err |-> IF p.err # Nil THEN p.err ELSE out.err]
    /\ ch' = Tail(ch)
    /\ UNCHANGED <<parIndexes, spawnI, wg, chClosed, closer, wk, wkRes, points,
                   panicked, objCalls, evPc>>
    /\ UNCHANGED evalFrame
    /\ UNCHANGED <<solverVars, methodVars>>

\* lines 270, 277-278: ch is drained and closed; the duplicates are filled in
ParallelReturn ==
    /\ evPc = "collect"
    /\ ~panicked
    /\ ch = <<>>
    /\ chClosed
    /\ LET filled == fillfromuniq(parIndexes, out.results)
       IN  /\ panicked' = filled.panic
           /\ out' = [out EXCEPT !.results = filled.points]
    /\ evPc' = "returned"
    /\ UNCHANGED <<parIndexes, spawnI, wg, ch, chClosed, closer, wk, wkRes, points,
                   objCalls>>
    /\ UNCHANGED evalFrame
    /\ UNCHANGED <<solverVars, methodVars>>

\* The steps inside one ParallelEvaler.Eval call.
ParallelStep ==
    \/ ParallelSpawn
    \/ ParallelSpawnCloser
    \/ \E i \in DOMAIN wk : WorkerCall(i)
    \/ \E i \in DOMAIN wk : WorkerSend(i)
    \/ \E i \in DOMAIN wk : WorkerDone(i)
    \/ CloserClose
    \/ ParallelReceive
    \/ ParallelReturn

\* The caller has taken the results of an Eval call that returned; the
\* evaluator is ready for the next call.
EvalDone ==
    /\ evPc = "returned"
    /\ ~panicked
    /\ evPc' = "idle"
    /\ points' = <<>>
    /\ out' = NoRet
    /\ objCalls' = NoCalls
    /\ parIndexes' = <<>>
    /\ spawnI' = 0
    /\ wg' = 0
    /\ ch' = <<>>
    /\ chClosed' = FALSE
    /\ closer' = "none"
    /\ wk' = <<>>
    /\ wkRes' = <<>>
    /\ UNCHANGED <<panicked, ev, continueOnErr, objFail, cache, useCount, nEvals,
                   objCount, submitted>>
    /\ UNCHANGED <<solverVars, methodVars>>

\* No Eval call in progress, nothing cached.
EvalFresh ==
    /\ evPc = "idle"
    /\ points = <<>>
    /\ out = NoRet
    /\ panicked = FALSE
    /\ objCalls = NoCalls
    /\ cache = <<>>
    /\ useCount = 0
    /\ nEvals = 0
    /\ objCount = 0
    /\ submitted = {}
    /\ ParIdle

\* A SerialEvaler or a ParallelEvaler, and an objective.
EvalInit ==
    /\ \/ ev = "serial" /\ continueOnErr \in BOOLEAN
       \/ ev = "parallel" /\ continueOnErr = FALSE
    /\ objFail \in SUBSET Pos
    /\ EvalFresh

\* A CacheEvaler around a SerialEvaler, and an objective.
CacheInit ==
    /\ ev = "cache"
    /\ continueOnErr \in BOOLEAN
    /\ objFail \in SUBSET Pos
    /\ EvalFresh

EvalNext ==
    \/ \E batch \in Batches : SerialEvalCall(batch)
    \/ \E batch \in Batches : ParallelEvalCall(batch)
    \/ ParallelSpawn
    \/ ParallelSpawnCloser
    \/ \E i \in DOMAIN wk : WorkerCall(i)
    \/ \E i \in DOMAIN wk : WorkerSend(i)
    \/ \E i \in DOMAIN wk : WorkerDone(i)
    \/ CloserClose
    \/ ParallelReceive
    \/ ParallelReturn
    \/ EvalDone

CacheNext ==
    \/ \E batch \in Batches : CacheEvalCall(batch)
    \/ EvalDone

\* No evaluator in use.
EvalIdle ==
    /\ ev = "serial"
    /\ continueOnErr = FALSE
    /\ objFail = {}
    /\ EvalFresh


(***************************************************************************)
(* The particle swarm method (src/swarm/swarm.go), in one dimension.       *)
(*                                                                         *)
(* A particle is [id, pos, val, vel, best], best a point [pos, val].  The  *)
(* products cognition*r1 and social*r2 of the velocity equation, r1 and r2 *)
(* random, are drawn from RandPairs.  The evaluator is any Evaler: it       *)
(* returns an error, or the results of a prefix of the points.             *)
(***************************************************************************)
MaxSwarmIter == 2      \* cap on the number of Iterate calls explored
PopIndexes == {0, 1}   \* the indexes of the initial population

Abs(x) == IF x < 0 THEN -x ELSE x
\* math.Copysign(x, sign) for a non-negative x
Copysign(x, sign) == IF sign < 0 THEN -x ELSE x

Inertia == 1
SwarmObj(x) == Abs(x - 1)

\* mesh.Nearest of the mesh given to Iterate (lines 301-306): no mesh
\* (step 0 here) leaves the position alone; a grid of the given step, origin
\* 0, rounds as Infinite.Nearest does: n, rem = Modf(x/step), one more when
\* rem/step > 0.5.
Trunc(x, step) == IF x >= 0 THEN x \div step ELSE -((-x) \div step)
GridNearest(x, step) ==
    LET n == Trunc(x, step)
    IN  IF 2 * (x - n * step) > step * step THEN (n + 1) * step ELSE n * step
SwarmNearest(x, step) == IF step = 0 THEN x ELSE GridNearest(x, step)

\* Mutant of Clamp: only velocities above vmax are cut.
Clamp_PositiveOnly(v, vmax) == IF v > vmax THEN vmax ELSE v

\* lines 79-81
Clamp(v, vmax) == IF Abs(v) > vmax THEN Copysign(vmax, v) ELSE v

\* Particle.Move (lines 70-91)
Move(p, gbest, vmax, inertia, c1, c2) ==
    LET raw == inertia * p.vel + c1 * (p.best.pos - p.pos)
                               + c2 * (gbest.pos - p.pos)
        v == Clamp(raw, vmax)
    IN  [p EXCEPT !.vel = v, !.pos = p.pos + v, !.val = Inf]

\* Particle.Kill (lines 93-105)
Kill(p, gbest, xtol, vtol) ==
    IF xtol = 0 \/ vtol = 0 THEN FALSE
    ELSE /\ p.vel * p.vel < vtol * vtol
         /\ (p.pos - gbest.pos) * (p.pos - gbest.pos) < xtol * xtol

\* Mutant of Update: the particle takes the position of the evaluated point.
Update_Projected(p, newp) ==
    IF newp.val < p.best.val
    THEN [p EXCEPT !.val = newp.val, !.best = newp, !.pos = newp.pos]
    ELSE [p EXCEPT !.val = newp.val, !.pos = newp.pos]

\* Mutant of Update: the personal best follows every evaluation.
Update_Always(p, newp) == [p EXCEPT !.val = newp.val, !.best = newp]

\* Particle.Update (lines 107-114)
Update(p, newp) ==
    IF newp.val < p.best.val
    THEN [p EXCEPT !.val = newp.val, !.best = newp]
    ELSE [p EXCEPT !.val = newp.val]

\* Mutant of BestLoop: the current values are compared.
BestLoop_ByVal(pp, i, best) ==
    LET m == CHOOSE j \in DOMAIN pp : \A k \in DOMAIN pp :
                 pp[j].val < pp[k].val \/ (pp[j].val = pp[k].val /\ j <= k)
    IN  pp[m]

\* Population.Best (lines 153-167), for a population that is not empty
RECURSIVE BestLoop(_, _, _)
BestLoop(pp, i, best) ==
    IF i = Length(pp) THEN best
    ELSE BestLoop(pp, i + 1, IF pp[i].best.val < best.best.val THEN pp[i] ELSE best)

PopulationBest(pp) == BestLoop(pp, 1, pp[0])


\* lines 316-320: the results of the evaluator update the first particles
UpdateAll(pp, results) ==
    [i \in DOMAIN pp |-> IF i < Length(results) THEN Update(pp[i], results[i])
                         ELSE pp[i]]

\* lines 328-334: the kill loop ranges over the slice it had at its start,
\* while it.Pop = append(it.Pop[:i], it.Pop[i+1:]...) shifts the elements of
\* the shared array and shortens it.Pop; it.Pop[i+1:] panics when i+1
\* exceeds the current length.  arr is the array, len the length of it.Pop.
RECURSIVE KillLoop(_, _, _, _, _)
KillLoop(arr, len, i, gbest, cfg) ==
    IF i = Length(arr) THEN [pop |-> Slice(arr, len), panic |-> FALSE]
    ELSE IF ~Kill(arr[i], gbest, cfg.xtol, cfg.vtol)
         THEN KillLoop(arr, len, i + 1, gbest, cfg)
         ELSE IF i + 1 > len
              THEN [pop |-> Slice(arr, len), panic |-> TRUE]
              ELSE KillLoop([j \in DOMAIN arr |->
                                IF j >= i /\ j + 1 < len THEN arr[j + 1] ELSE arr[j]],
                            len - 1, i + 1, gbest, cfg)

\* Mutant of NewBest: the best personal best always becomes the incumbent.
NewBest_Unconditional(pp, best) ==
    IF Length(pp) > 0 THEN PopulationBest(pp).best ELSE best

\* lines 322-326: the incumbent after the moves
NewBest(pp, best) ==
    IF Length(pp) > 0 /\ PopulationBest(pp).best.val < best.val
    THEN PopulationBest(pp).best ELSE best

NoSwarmOut == [best |-> ZeroPoint, n |-> 0, err |-> Nil]

\* Iterator.AddPoint (lines 290-294)
AddPoint(p) ==
    /\ ~swPanicked
    /\ itBest' = IF p.val < itBest.val THEN p ELSE itBest
    /\ swArg' = p
    /\ UNCHANGED <<pop, itCount, swCfg, popMoved, swOut, swPanicked>>
    /\ UNCHANGED <<solverVars, evalVars, patternVars, meshVars, logger>>

\* Iterator.Iterate (lines 296-337) when the evaluator returns an error
IterateErr(n, err) ==
    /\ ~swPanicked
    /\ itCount < MaxSwarmIter
    /\ err # Nil
    /\ itCount' = itCount + 1
    /\ swOut' = [best |-> [pos |-> NilPos, val |-> Inf], n |-> n, err |-> err]
    /\ UNCHANGED <<pop, itBest, swCfg, popMoved, swArg, swPanicked>>
    /\ UNCHANGED <<solverVars, evalVars, patternVars, meshVars, logger>>

\* Iterator.Iterate (lines 296-337) when the evaluator returns the results
\* of the first n points; c1 and c2 are the random factors of each particle.
Iterate(n, c1, c2) ==
    /\ ~swPanicked
    /\ itCount < MaxSwarmIter
    /\ LET results == [i \in 0..(n - 1) |->
                          LET x == SwarmNearest(pop[i].pos, swCfg.meshStep)
                          IN  [pos |-> x, val |-> SwarmObj(x)]]
           updated == UpdateAll(pop, results)
           moved == [i \in DOMAIN pop |->
                        Move(updated[i], itBest, swCfg.vmax, Inertia, c1[i], c2[i])]
           best == NewBest(moved, itBest)
           killed == KillLoop(moved, Length(moved), 0, best, swCfg)
       IN  /\ itCount' = itCount + 1
           /\ popMoved' = moved
           /\ itBest' = best
           /\ pop' = killed.pop
           /\ swPanicked' = killed.panic
           /\ swOut' = IF killed.panic THEN swOut
                       ELSE [best |-> best, n |-> n, err |-> Nil]
    /\ UNCHANGED <<swCfg, swArg>>
    /\ UNCHANGED <<solverVars, evalVars, patternVars, meshVars, logger>>

\* The point a hybrid method shares with AddPoint.
SharedPoints == {[pos |-> 1, val |-> 2]}

\* The particles of a population given to NewIterator (lines 259-288):
\* positions, velocities, current values and personal best values.
InitParticles ==
    {[id |-> 0, pos |-> -2, val |-> Inf, vel |-> 2, best |-> [pos |-> -2, val |-> Inf]],
     [id |-> 0, pos |-> 4, val |-> 3, vel |-> -2, best |-> [pos |-> 4, val |-> 5]],
     [id |-> 0, pos |-> 3, val |-> 4, vel |-> -2, best |-> [pos |-> 3, val |-> 2]]}

\* Iterator.Vmax, Xtol, Vtol and the step of the mesh (0: no mesh)
SwarmConfigs ==
    {[vmax |-> 1, xtol |-> 0, vtol |-> 0, meshStep |-> 0],
     [vmax |-> 1, xtol |-> 2, vtol |-> 3, meshStep |-> 2],
     [vmax |-> Inf, xtol |-> 2, vtol |-> 3, meshStep |-> 0],
     [vmax |-> Inf, xtol |-> 0, vtol |-> 0, meshStep |-> 2]}

\* What cognition*r1 and social*r2 may be for one particle
RandPairs == {<<0, 1>>, <<1, 0>>, <<1, 1>>}

\* NewIterator (lines 259-288)
SwarmInit ==
    /\ pop \in {[i \in PopIndexes |-> [f[i] EXCEPT !.id = i]] :
                   f \in [PopIndexes -> InitParticles]}
    /\ itBest = [pos |-> PopulationBest(pop).pos, val |-> PopulationBest(pop).val]
    /\ itCount = 0
    /\ swCfg \in SwarmConfigs
    /\ popMoved = pop
    /\ swArg = ZeroPoint
    /\ swOut = NoSwarmOut
    /\ swPanicked = FALSE

IterateAny ==
    \E n \in 0..Length(pop), r \in [DOMAIN pop -> RandPairs] :
        Iterate(n, [i \in DOMAIN pop |-> r[i][1]], [i \in DOMAIN pop |-> r[i][2]])

SwarmNext ==
    \/ \E p \in SharedPoints : AddPoint(p)
    \/ \E err \in ErrVals : IterateErr(1, err)
    \/ IterateAny

(***************************************************************************)
(* The pattern search method (src/pattern/pattern.go), in one dimension.   *)
(* Positions are whole multiples of 2^-33, the smallest power of two above *)
(* the default SkipEps of 1e-10.  The step of the mesh is a float64 power  *)
(* of two 2^(k - ExpBias), held as the number k >= 1; k = 0 holds the step *)
(* 0, so that k = 1 is the smallest positive float64, 2^-1074.             *)
(***************************************************************************)
MaxPatIter == 3        \* cap on the number of Iterate calls explored

FoundBetterErr == -1   \* line 15
ZeroStepErr == -2      \* line 16

ExpBias == 1075
\* Poller.SkipEps = 1e-10 (line 87): 2^(k - ExpBias) <= 1e-10 exactly when
\* k <= SkipK, since 2^-34 < 1e-10 < 2^-33.
SkipK == 1041

\* Mutant of Halve: a step is cut to zero at once.
Halve_ToZero(k) == 0

\* mesh.Step() * 0.5 (line 155): exact down to 2^-1074, whose half rounds
\* to 0.
Halve(k) == IF k = 0 THEN 0 ELSE k - 1

\* mesh.Step() * 2.0 (line 142)
Double(k) == IF k = 0 THEN 0 ELSE k + 1

\* The step in units of position.  A step of 1e-10 or less moves a point by
\* less than SkipEps: the displacement is held as 0.
StepUnits(k) == IF k > SkipK THEN 2 ^ (k - SkipK - 1) ELSE 0

\* Mesh.Nearest for a mesh with the given origin and step: the nearest point
\* of the grid through the origin; a mesh of step 0 leaves the point alone.
MeshNearest(origin, x, step) ==
    IF step = 0 THEN x ELSE origin + GridNearest(x - origin, step)

\* The objective given to Iterate, pure: the constant 0, or the distance to
\* the position 3.
PatObj(x) == IF ptCfg.obj = "zero" THEN 0 ELSE Abs(x - 3)

\* objStopper.Objective (lines 394-402)
StopObjective(best, x) ==
    IF x \in ptCfg.fail THEN [val |-> Inf, err |-> ObjErr(x)]
    ELSE IF PatObj(x) < best THEN [val |-> PatObj(x), err |-> FoundBetterErr]
    ELSE [val |-> PatObj(x), err |-> Nil]

\* SerialEvaler{}.Eval on the objStopper (src/optim.go:188-209), as
\* serialLoop and SerialEval with ContinueOnErr false.
RECURSIVE stopLoop(_, _, _, _, _)
stopLoop(best, pts, indexes, i, st) ==
    IF i = Length(pts) THEN [st EXCEPT !.err = Nil]
    ELSE IF indexes[i] # i THEN stopLoop(best, pts, indexes, i + 1, st)
    ELSE LET o == StopObjective(best, pts[i].pos)
             st1 == [st EXCEPT !.results[i] = NewPoint(pts[i].pos, o.val),
                               !.n = @ + 1,
                               !.err = o.err]
         IN  IF StopOnErr(FALSE, o.err)
             THEN [st1 EXCEPT !.len = i + 1]
             ELSE stopLoop(best, pts, indexes, i + 1, st1)

StopEval(best, pts) ==
    LET indexes == uniqof(pts)
        st == stopLoop(best, pts, indexes, 0,
                       [results |-> [i \in DOMAIN pts |-> NilPoint], n |-> 0,
                        err |-> Nil, len |-> Length(pts)])
        filled == fillfromuniq(indexes, st.results)
    IN  [results |-> Slice(filled.points, st.len), n |-> st.n, err |-> st.err,
         panic |-> filled.panic]

\* ParallelEvaler{}.Eval on the objStopper (src/optim.go:245-279): every
\* point that is no duplicate is evaluated, the results are stored by index
\* and err is the error of the message received last among those that carry
\* one, which may be the message of any of them: that of index last, or of
\* the highest index when last carries none.
ParallelStopEval(best, pts, last) ==
    LET indexes == uniqof(pts)
        Uniq == {i \in DOMAIN pts : indexes[i] = i}
        o(i) == StopObjective(best, pts[i].pos)
        Errs == {i \in Uniq : o(i).err # Nil}
        final == IF last \in Errs THEN last
                 ELSE CHOOSE i \in Errs : \A j \in Errs : j <= i
        filled == fillfromuniq(indexes,
                               [i \in DOMAIN pts |->
                                   IF i \in Uniq THEN NewPoint(pts[i].pos, o(i).val)
                                                 ELSE NilPoint])
    IN  [results |-> filled.points, n |-> Cardinality(Uniq),
         err |-> IF Errs = {} THEN Nil ELSE o(final).err,
         panic |-> filled.panic]

\* Compass2N (lines 429-442) for ndim = 1: the permutation of one dimension
\* is the identity, so the directions are +1, then -1.  RandomN (lines
\* 469-503) returns no direction for ndim = 1.
Compass2N == [i \in 0..1 |-> IF i = 0 THEN 1 ELSE -1]

\* pointFromDirec (lines 414-422)
pointFromDirec(from, direc, k) ==
    NewPoint(MeshNearest(from.pos, from.pos + direc * StepUnits(k), StepUnits(k)),
             Inf)

\* genPollPoints (lines 404-412)
genPollPoints(from, dirs, k) ==
    [i \in DOMAIN dirs |-> pointFromDirec(from, dirs[i], k)]

\* direcbetween (lines 513-520): int() truncates towards zero
direcbetween(from, to, k) == Trunc(to.pos - from.pos, StepUnits(k))

\* append(a, b...)
Concat(a, b) ==
    [i \in 0..(Length(a) + Length(b) - 1) |->
        IF i < Length(a) THEN a[i] ELSE b[i - Length(a)]]

\* lines 304-318: the points farther than SkipEps from the centre; L2Dist
\* (src/optim.go:343-350) is the absolute difference in one dimension, and
\* it exceeds 1e-10 exactly when it is a unit or more.
RECURSIVE skipNear(_, _, _, _)
skipNear(from, pts, i, acc) ==
    IF i = Length(pts) THEN acc
    ELSE skipNear(from, pts, i + 1,
                  IF Abs(pts[i].pos - from.pos) >= 1 THEN AppendTo(acc, pts[i])
                                                     ELSE acc)

\* sort.Sort(byval(...)) (lines 256-261, 341): the insertion sort that
\* sort.Sort runs on fewer than 12 elements.
\* Mutant of sortLoop: the directions are left in the order recorded.
sortLoop_Unsorted(ds, i, acc) == ds

RECURSIVE sortLoop(_, _, _)
sortLoop(ds, i, acc) ==
    IF i = Length(ds) THEN acc
    ELSE LET j == Cardinality({a \in DOMAIN acc : acc[a].val <= ds[i].val})
         IN  sortLoop(ds, i + 1,
                      [a \in 0..Length(acc) |->
                          IF a < j THEN acc[a]
                          ELSE IF a = j THEN ds[i] ELSE acc[a - 1]])

\* lines 331-339: the improving directions are kept, the lowest result
\* becomes the best
RECURSIVE keepLoop(_, _, _, _, _, _)
keepLoop(from, results, k, i, keep, nextbest) ==
    IF i = Length(results) THEN [keep |-> keep, best |-> nextbest]
    ELSE LET p == results[i]
         IN  keepLoop(from, results, k, i + 1,
                      IF p.val < from.val
                      THEN AppendTo(keep, [dir |-> direcbetween(from, p, k),
                                           val |-> p.val])
                      ELSE keep,
                      IF p.val < nextbest.val THEN p ELSE nextbest)

\* Poller.Poll (lines 269-351) on a mesh of step k centred on from, with
\* the evaluator of the method.
Poll(cp, from, k, last) ==
    LET fresh == Hash(from) # cp.prevhash \/ cp.prevstep # k
        span == IF fresh THEN genPollPoints(from, Compass2N, k) ELSE <<>>
        prevgood == [i \in DOMAIN cp.keepdirecs |->
                        pointFromDirec(from, cp.keepdirecs[i].dir, k)]
        pts == skipNear(from, Concat(prevgood, span), 0, <<>>)
        cp1 == [cp EXCEPT !.prevhash = IF fresh THEN Hash(from) ELSE @,
                          !.prevstep = k,
                          !.points = pts]
        r == IF ptCfg.ev = "serial" THEN StopEval(from.val, pts)
                                    ELSE ParallelStopEval(from.val, pts, last)
        kl == keepLoop(from, r.results, k, 0, cp.keepdirecs, from)
        sorted == sortLoop(kl.keep, 0, <<>>)
        cp2 == [cp1 EXCEPT !.keepdirecs = IF Length(sorted) > cp.Nkeep
                                          THEN Slice(sorted, cp.Nkeep)
                                          ELSE sorted]
    IN  IF r.panic
        THEN [cp |-> cp1, panic |-> TRUE, success |-> FALSE, best |-> from,
              n |-> 0, err |-> Nil]
        ELSE IF r.err # Nil /\ r.err # FoundBetterErr
        THEN [cp |-> cp1, panic |-> FALSE, success |-> FALSE, best |-> from,
              n |-> r.n, err |-> r.err]
        ELSE IF kl.best.val < from.val
        THEN [cp |-> cp2, panic |-> FALSE, success |-> TRUE, best |-> kl.best,
              n |-> r.n, err |-> Nil]
        ELSE [cp |-> cp2, panic |-> FALSE, success |-> FALSE, best |-> from,
              n |-> r.n, err |-> Nil]

\* Mutant of Search: the wrapped method's point is taken without comparing.
Search_AnyResult(curr, inner) ==
    IF ptCfg.searcher = "null"
    THEN [success |-> FALSE, best |-> curr, n |-> 0, err |-> Nil]
    ELSE IF inner.err # Nil
    THEN [success |-> FALSE, best |-> [pos |-> NilPos, val |-> Inf],
          n |-> inner.n, err |-> inner.err]
    ELSE [success |-> TRUE, best |-> inner.best, n |-> inner.n, err |-> Nil]

\* NullSearcher.Search (lines 359-361) and WrapSearcher.Search (lines
\* 370-384); inner is what the wrapped method's Iterate returns.
Search(curr, inner) ==
    IF ptCfg.searcher = "null"
    THEN [success |-> FALSE, best |-> curr, n |-> 0, err |-> Nil]
    ELSE IF inner.err # Nil
    THEN [success |-> FALSE, best |-> [pos |-> NilPos, val |-> Inf],
          n |-> inner.n, err |-> inner.err]
    ELSE IF inner.best.val < curr.val
    THEN [success |-> TRUE, best |-> inner.best, n |-> inner.n, err |-> Nil]
    ELSE [success |-> FALSE, best |-> curr, n |-> inner.n, err |-> Nil]

\* Mutant of PollSucceeded: the counter is not reset when the step grows.
PollSucceeded_NoReset(ns, k) ==
    IF ns + 1 = ptCfg.NsuccessGrow
    THEN [nsuccess |-> ns + 1, step |-> Double(k)]
    ELSE [nsuccess |-> ns + 1, step |-> k]

\* lines 140-144: the counter and the step after a successful poll
PollSucceeded(ns, k) ==
    IF ns + 1 = ptCfg.NsuccessGrow
    THEN [nsuccess |-> 0, step |-> Double(k)]
    ELSE [nsuccess |-> ns + 1, step |-> k]

\* Mutant of PollFailed: the step is compared to zero before it is halved.
PollFailed_TestBefore(k) ==
    [nsuccess |-> 0, step |-> Halve(k),
     err |-> IF k = 0 THEN ZeroStepErr ELSE Nil]

\* lines 153-159: the counter, the step and the error after a failed poll
PollFailed(k) ==
    [nsuccess |-> 0, step |-> Halve(k),
     err |-> IF Halve(k) = 0 THEN ZeroStepErr ELSE Nil]

NoPatOut == [best |-> ZeroPoint, n |-> 0, err |-> Nil]
NoPoll == [from |-> ZeroPoint, points |-> <<>>, success |-> FALSE,
           best |-> ZeroPoint, n |-> 0, err |-> Nil, panic |-> FALSE]

\* Method.AddPoint (lines 99-103)
PatternAddPoint(p) ==
    /\ ~ptPanicked
    /\ ptCurr' = IF p.val < ptCurr.val THEN p ELSE ptCurr
    /\ UNCHANGED <<nsuccess, ptCount, ptCfg, ptStep, ptOrigin, poller, ptOut,
                   ptPoll, ptKind, ptStreak, ptPanicked>>

\* Method.Iterate (lines 107-161); inner is what the method wrapped by the
\* searcher returns, last the point whose message a parallel evaluator
\* receives last.
\* Mutant of SearchSucceeded: the mesh is centred on the point found.
SearchSucceeded_Recentre(best, origin) == [curr |-> best, origin |-> best.pos]

\* lines 122-124: a successful search; the point found becomes the incumbent
\* and Iterate returns before the mesh.SetOrigin of line 132.
SearchSucceeded(best, origin) == [curr |-> best, origin |-> origin]

PatternIterate(inner, last) ==
    /\ ~ptPanicked
    /\ ptCount' = ptCount + 1
    /\ \E sr \in {Search(ptCurr, inner)},
          pr \in {Poll(poller, ptCurr, ptStep, last)} :
       LET polled == [from |-> ptCurr, points |-> pr.cp.points,
                      success |-> pr.success, best |-> pr.best, n |-> pr.n,
                      err |-> pr.err, panic |-> pr.panic]
       IN  IF sr.err # Nil                                    \* line 120
           THEN /\ ptOut' = [best |-> sr.best, n |-> sr.n, err |-> sr.err]
                /\ ptKind' = "searcherr"
                /\ UNCHANGED <<ptCurr, nsuccess, ptStep, ptOrigin, poller,
                               ptPoll, ptPanicked>>
           ELSE IF sr.success                                 \* line 122
           THEN /\ ptCurr' = SearchSucceeded(sr.best, ptOrigin).curr
                /\ ptOrigin' = SearchSucceeded(sr.best, ptOrigin).origin
                /\ ptOut' = [best |-> sr.best, n |-> sr.n, err |-> Nil]
                /\ ptKind' = "searchok"
                /\ UNCHANGED <<nsuccess, ptStep, poller, ptPoll, ptPanicked>>
           ELSE /\ poller' = pr.cp                            \* line 134
                /\ ptPoll' = polled
                /\ ptPanicked' = pr.panic
                /\ IF pr.panic
                   THEN /\ ptKind' = "panic"
                        /\ ptOrigin' = ptCurr.pos
                        /\ UNCHANGED <<ptCurr, nsuccess, ptStep, ptOut>>
                   ELSE IF pr.err # Nil                       \* line 136
                   THEN /\ ptOut' = [best |-> ptCurr, n |-> sr.n + pr.n,
                                     err |-> pr.err]
                        /\ ptKind' = "pollerr"
                        /\ ptOrigin' = ptCurr.pos
                        /\ UNCHANGED <<ptCurr, nsuccess, ptStep>>
                   ELSE IF pr.success                         \* line 138
                   THEN /\ ptCurr' = pr.best
                        /\ nsuccess' = PollSucceeded(nsuccess, ptStep).nsuccess
                        /\ ptStep' = PollSucceeded(nsuccess, ptStep).step
                        /\ ptOrigin' = pr.best.pos
                        /\ ptOut' = [best |-> pr.best, n |-> sr.n + pr.n,
                                     err |-> Nil]
                        /\ ptKind' = "pollok"
                   ELSE /\ nsuccess' = PollFailed(ptStep).nsuccess \* line 152
                        /\ ptStep' = PollFailed(ptStep).step
                        /\ ptOrigin' = ptCurr.pos
                        /\ ptOut' = [best |-> ptCurr, n |-> sr.n + pr.n,
                                     err |-> PollFailed(ptStep).err]
                        /\ ptKind' = "pollfail"
                        /\ UNCHANGED ptCurr
    /\ ptStreak' = IF ptKind' = "pollfail" THEN 0
                   ELSE IF ptKind' # "pollok" THEN ptStreak
                   ELSE IF ptStreak + 1 = ptCfg.NsuccessGrow THEN 0
                   ELSE ptStreak + 1
    /\ UNCHANGED ptCfg

\* The inputs of the method: what New is given (lines 83-97), the step of
\* the mesh, points shared through AddPoint and results of a wrapped method.
PatternConfigs ==
    [NsuccessGrow : {-1, 1, 2}, searcher : {"null", "wrap"},
     ev : {"serial", "parallel"}, obj : {"zero", "abs"}, fail : {{}, {7}, {9}}]
PatternSteps == {1, 2, SkipK + 1, SkipK + 2}
PatternShared == {[pos |-> 0, val |-> 3]}
SearchResults ==
    {[best |-> [pos |-> 4, val |-> 1], n |-> 1, err |-> Nil],
     [best |-> [pos |-> 9, val |-> 6], n |-> 1, err |-> Nil],
     [best |-> [pos |-> 4, val |-> 1], n |-> 1, err |-> 1]}

\* New (lines 83-97) with the Nkeep option, started from an evaluated point.
PatternNew(start) ==
    /\ ptCurr = NewPoint(start, PatObj(start))
    /\ nsuccess = 0
    /\ ptCount = 0
    /\ ptOrigin = 0
    /\ poller \in [Nkeep : {1, 2}, keepdirecs : {<<>>}, points : {<<>>},
                   prevhash : {Nil}, prevstep : {0}]
    /\ ptOut = NoPatOut
    /\ ptPoll = NoPoll
    /\ ptKind = "none"
    /\ ptStreak = 0
    /\ ptPanicked = FALSE

PatternInit ==
    /\ ptCfg \in PatternConfigs
    /\ ptStep \in PatternSteps
    /\ PatternNew(8)

PatternIterateAny ==
    /\ ptCount < MaxPatIter
    /\ \E inner \in SearchResults, last \in 0..1 : PatternIterate(inner, last)
    /\ UNCHANGED <<solverVars, evalVars, swarmVars, meshVars, logger>>

PatternShare ==
    /\ \E p \in PatternShared : PatternAddPoint(p)
    /\ UNCHANGED <<solverVars, evalVars, swarmVars, meshVars, logger>>

PatternNext == PatternShare \/ PatternIterateAny

\* No pattern method in use.
PatternIdle ==
    /\ ptCfg = [NsuccessGrow |-> -1, searcher |-> "null", ev |-> "serial",
                obj |-> "zero", fail |-> {}]
    /\ ptStep = 0
    /\ ptCurr = ZeroPoint
    /\ nsuccess = 0
    /\ ptCount = 0
    /\ ptOrigin = 0
    /\ poller = [Nkeep |-> 1, keepdirecs |-> <<>>, points |-> <<>>,
                 prevhash |-> Nil, prevstep |-> 0]
    /\ ptOut = NoPatOut
    /\ ptPoll = NoPoll
    /\ ptKind = "none"
    /\ ptStreak = 0
    /\ ptPanicked = FALSE

(***************************************************************************)
(* The meshes (src/mesh/project.go), in one dimension with the identity    *)
(* basis.  Coordinates and steps are whole multiples of 1/MeshUnit.        *)
(***************************************************************************)
MeshUnit == 10
MaxCoord == 20         \* the points given to Nearest lie in -MaxCoord..MaxCoord

\* Infinite.Nearest (lines 272-319): math.Modf gives the integer part n of
\* (p - Origin)/StepSize, rounded towards zero, and the remainder rem with
\* the sign of the quotient; n is one more when rem/StepSize > 0.5; the
\* result is n*StepSize.
InfiniteNearest(m, p) ==
    IF m.step = 0 THEN p
    ELSE LET newp == p - m.origin
             n == Trunc(newp, m.step)
         IN  IF 2 * MeshUnit * (newp - n * m.step) > m.step * m.step
             THEN (n + 1) * m.step
             ELSE n * m.step

\* Bounded.Nearest (lines 345-353)
BoundedNearest(m, p) ==
    LET Max(a, b) == IF a > b THEN a ELSE b
    IN  InfiniteNearest(m, Min(m.upper, Max(m.lower, p)))

\* The meshes explored: origins 0 and 0.4, steps 0, 1 and 1.3, and bounds
\* that are and that are not multiples of the step.
Meshes ==
    {m \in [origin : {0, 4}, step : {0, 10, 13}, lower : {-10, 0, 4},
            upper : {10, 17}] : TRUE}

MeshInit ==
    /\ mesh \in Meshes
    /\ near = [called |-> FALSE, p |-> 0, infinite |-> 0, bounded |-> 0]

\* A call of Nearest on the Infinite mesh and on the Bounded mesh around it.
Nearest(p) ==
    /\ near' = [called |-> TRUE, p |-> p, infinite |-> InfiniteNearest(mesh, p),
                bounded |-> BoundedNearest(mesh, p)]
    /\ UNCHANGED mesh
    /\ UNCHANGED <<solverVars, evalVars, swarmVars, patternVars, logger>>

MeshNext == \E p \in (-MaxCoord)..MaxCoord : Nearest(p)

\* No mesh of src/mesh in use.
MeshIdle ==
    /\ mesh = [origin |-> 0, step |-> 0, lower |-> 0, upper |-> 0]
    /\ near = [called |-> FALSE, p |-> 0, infinite |-> 0, bounded |-> 0]

(***************************************************************************)
(* ObjectiveLogger (src/optim.go:285-295) as the objective of a            *)
(* ParallelEvaler batch: every worker forwards the call and then writes    *)
(* one record to the sink W.  The write is a step of its own: a worker is  *)
(* inside it from the call of fmt.Fprintf until its return.                *)
(***************************************************************************)
NoLogger == [sink |-> <<>>, seen |-> <<>>, calls |-> 0]

\* No logger in use.
LoggerIdle == logger = NoLogger

\* lines 291-293: the wrapped objective is called and fmt.Fprintf is entered;
\* the worker sees the sink as it is now.  No lock is taken.
LoggerForward(i) ==
    /\ evPc \in {"spawn", "collect"}
    /\ wk[i] = "ready"
    /\ objCalls' = [objCalls EXCEPT ![points[i].pos] = @ + 1]
    /\ wk' = [wk EXCEPT ![i] = "logging"]
    /\ logger' = [logger EXCEPT !.seen = (i :> logger.sink) @@ @,
                                !.calls = @ + 1]
    /\ UNCHANGED <<parIndexes, spawnI, wg, ch, chClosed, closer, wkRes, points, out,
                   panicked, evPc>>
    /\ UNCHANGED evalFrame
    /\ UNCHANGED <<solverVars, swarmVars, patternVars, meshVars>>

\* lines 293-294: the write ends and Objective returns.  A write that
\* overlapped another one is a data race on the sink: the record is added to
\* the sink as it is, or to the sink as this worker saw it.
LoggerWritten(i) ==
    /\ evPc \in {"spawn", "collect"}
    /\ wk[i] = "logging"
    /\ LET o == Objective(points[i].pos)
           rec == [pos |-> points[i].pos, val |-> o.val]
       IN  /\ wkRes' = [wkRes EXCEPT ![i] = [pos |-> points[i].pos, val |-> o.val,
                                              index |-> i, err |-> o.err]]
           /\ \E before \in {logger.sink, logger.seen[i]} :
                  logger' = [logger EXCEPT !.sink = Append(before, rec)]
    /\ wk' = [wk EXCEPT ![i] = "evaluated"]
    /\ UNCHANGED <<parIndexes, spawnI, wg, ch, chClosed, closer, points, out, panicked,
                   objCalls, evPc>>
    /\ UNCHANGED evalFrame
    /\ UNCHANGED <<solverVars, swarmVars, patternVars, meshVars>>

\* One ParallelEvaler.Eval call whose objective is an ObjectiveLogger.
LoggerInit ==
    /\ ev = "parallel"
    /\ continueOnErr = FALSE
    /\ objFail \in SUBSET Pos
    /\ EvalFresh
    /\ logger = NoLogger

LoggerNext ==
    \/ \E batch \in Batches : nEvals = 0 /\ logger.calls = 0 /\ ParallelEvalCall(batch)
    \/ ParallelSpawn
    \/ ParallelSpawnCloser
    \/ \E i \in DOMAIN wk : LoggerForward(i)
    \/ \E i \in DOMAIN wk : LoggerWritten(i)
    \/ \E i \in DOMAIN wk : WorkerSend(i)
    \/ \E i \in DOMAIN wk : WorkerDone(i)
    \/ CloserClose
    \/ ParallelReceive
    \/ ParallelReturn

\* No swarm in use.
SwarmIdle ==
    /\ pop = <<>>
    /\ itBest = ZeroPoint
    /\ itCount = 0
    /\ swCfg = [vmax |-> Inf, xtol |-> 0, vtol |-> 0, meshStep |-> 0]
    /\ popMoved = <<>>
    /\ swArg = ZeroPoint
    /\ swOut = NoSwarmOut
    /\ swPanicked = FALSE

MethodIdle == SwarmIdle /\ PatternIdle /\ MeshIdle /\ LoggerIdle

(***************************************************************************)
(* Specifications: the driver with any method, and the evaluators with any *)
(* batches.                                                                *)
(***************************************************************************)
SolverSpecInit == SolverInit /\ EvalIdle /\ MethodIdle

SolverSpec == SolverSpecInit /\ [][SolverNext]_vars

\* A user who calls Run(): it keeps calling Next() until it returns false.
RunSpecInit == SolverInit /\ mode = "run" /\ EvalIdle /\ MethodIdle

RunNext == \E ret \in IterateResults, step \in StepVals : Run(ret, step)

RunSpec == RunSpecInit /\ [][RunNext]_vars /\ WF_vars(RunNext)

EvalSpecInit == EvalInit /\ SolverIdle /\ MethodIdle

EvalSpec == EvalSpecInit /\ [][EvalNext]_vars

CacheSpecInit == CacheInit /\ SolverIdle /\ MethodIdle

CacheSpec == CacheSpecInit /\ [][CacheNext]_vars

SwarmSpecInit ==
    SwarmInit /\ SolverIdle /\ EvalIdle /\ PatternIdle /\ MeshIdle /\ LoggerIdle

SwarmSpec == SwarmSpecInit /\ [][SwarmNext]_vars

PatternSpecInit ==
    PatternInit /\ SolverIdle /\ EvalIdle /\ SwarmIdle /\ MeshIdle /\ LoggerIdle

MeshSpecInit ==
    MeshInit /\ SolverIdle /\ EvalIdle /\ SwarmIdle /\ PatternIdle /\ LoggerIdle

MeshSpec == MeshSpecInit /\ [][MeshNext]_vars

LoggerSpecInit ==
    LoggerInit /\ SolverIdle /\ SwarmIdle /\ PatternIdle /\ MeshIdle

LoggerSpec == LoggerSpecInit /\ [][LoggerNext]_vars

PatternSpec == PatternSpecInit /\ [][PatternNext]_vars

(***************************************************************************)
(* The driver running the pattern method: Run() calls Next(), which calls  *)
(* Method.Iterate with the solver's mesh and reads the step of that mesh   *)
(* (src/optim.go:45-81).  The zero-step scenario: an objective that is 0   *)
(* everywhere, pattern.New on an evaluated point with the NullSearcher, a  *)
(* mesh of step 1e-8 and a Solver with MaxIter = 100 and no other limit.   *)
(* The step 1e-8 lies between 2^-27 and 2^-26; halving changes only the    *)
(* exponent, which is held as that of 2^-27.                               *)
(***************************************************************************)
ZeroStepInit ==
    /\ s = [MaxIter |-> 100, MaxEval |-> 0, MaxNoImprove |-> 0, MinStep |-> 0,
            neval |-> 0, niter |-> 0, noimprove |-> 0, best |-> ZeroPoint,
            err |-> Nil]
    /\ meshStep = ExpBias - 27
    /\ more = TRUE
    /\ calls = 0
    /\ sumN = 0
    /\ lowest = ZeroPoint
    /\ mode = "run"
    /\ runPc = "loop"
    /\ runErr = Nil
    /\ ptCfg = [NsuccessGrow |-> -1, searcher |-> "null", ev |-> "serial",
                obj |-> "zero", fail |-> {}]
    /\ ptStep = ExpBias - 27
    /\ PatternNew(128)
    /\ EvalIdle
    /\ SwarmIdle
    /\ MeshIdle
    /\ LoggerIdle

PatternRun ==
    /\ mode = "run"
    /\ runPc = "loop"
    /\ \E inner \in SearchResults : PatternIterate(inner, 0)
    /\ IF ptPanicked'
       THEN UNCHANGED <<s, meshStep, more, calls, sumN, lowest, runPc, runErr>>
       ELSE /\ NextCall(ptOut', ptStep')
            /\ IF more'
               THEN UNCHANGED <<runPc, runErr>>
               ELSE runPc' = "done" /\ runErr' = RunResult(s')
    /\ UNCHANGED <<mode, evalVars, swarmVars, meshVars, logger>>

ZeroStepSpec == ZeroStepInit /\ [][PatternRun]_vars

(***************************************************************************)
(* Properties of the driver.                                               *)
(***************************************************************************)
\* The incumbent value a Next() call starts from: +Inf on the first call.
IncumbentBefore == IF calls = 0 THEN Inf ELSE s.best.val
\* The lowest value returned by the Iterate calls made so far.
LowestBefore == IF calls = 0 THEN Inf ELSE lowest.val

\* C1: Best().Val after a Next() call is at most its value after the
\* previous call, whatever the iteration returned (errors included), and the
\* incumbent changes only to a point of strictly smaller value.
C1_BestMonotone ==
    [][ /\ (calls >= 1 => s'.best.val <= s.best.val)
        /\ s'.best.val <= IncumbentBefore
        /\ (s'.best # [s.best EXCEPT !.val = IncumbentBefore]
              => s'.best.val < IncumbentBefore) ]_solverVars

\* A later iteration that fails still improved the incumbent.
C1_Witness == calls >= 2 /\ s.noimprove = 0 /\ s.err # Nil /\ s.best.val = 0

\* C2: when Iterate returns an error, Next() returns false whatever the stop
\* limits are, Run() has left its loop and returned that error, Best() has
\* the lowest value returned so far (and is that point when some iteration
\* returned a value below +Inf), and Niter() and Neval() count the failing
\* iteration.
C2_ErrorStopsAndKeepsResults ==
    s.err # Nil =>
        /\ more = FALSE
        /\ (mode = "run" => runPc = "done" /\ runErr = s.err)
        /\ s.best.val = lowest.val
        /\ (lowest.val < Inf => s.best = lowest)
        /\ s.niter = calls
        /\ s.neval = sumN

\* Run() returned the error of a failing iteration that came after an
\* improving one, with no stop limit set.
C2_Witness ==
    /\ mode = "run" /\ runPc = "done" /\ runErr # Nil
    /\ s.MaxIter = 0 /\ s.MaxEval = 0 /\ s.MaxNoImprove = 0 /\ s.MinStep = 0
    /\ calls >= 2 /\ s.best.val = 0 /\ s.noimprove >= 1 /\ sumN >= 2

\* C3: without an error, Next() returns true iff no active stop predicate
\* fires: a limit of zero never fires, and the min-step predicate fires only
\* for a positive MinStep that the mesh step does not exceed (a negative
\* MinStep never fires, also with a mesh step of 0).
C3_MoreIffNoStop ==
    (calls >= 1 /\ s.err = Nil) =>
        (more <=> ~ \/ (s.MaxNoImprove > 0 /\ s.noimprove >= s.MaxNoImprove)
                    \/ (s.MaxIter > 0 /\ s.niter >= s.MaxIter)
                    \/ (s.MaxEval > 0 /\ s.neval >= s.MaxEval)
                    \/ (s.MinStep > 0 /\ meshStep <= s.MinStep))

\* A run with a negative MinStep and a mesh step of 0 goes on.
C3_Witness ==
    /\ calls >= 2 /\ s.err = Nil /\ more
    /\ s.MinStep < 0 /\ meshStep = 0
    /\ s.MaxIter = 0 /\ s.MaxEval = 0 /\ s.MaxNoImprove = 0

\* C4: with MaxIter = K > 0, Run() returns, and at every moment of the run
\* (its exit included) at most K iterations were started, each of them
\* completed and counted.
C4_RunStopsAtMaxIter ==
    /\ [](mode = "run" /\ s.MaxIter > 0 => calls <= s.MaxIter /\ s.niter = calls)
    /\ ((mode = "run" /\ s.MaxIter > 0) ~> runPc = "done")

\* Run() returned because of MaxIter alone, after exactly MaxIter iterations.
C4_Witness ==
    /\ mode = "run" /\ runPc = "done" /\ s.err = Nil
    /\ s.MaxIter = MaxLimit /\ s.niter = MaxLimit
    /\ s.MaxEval = 0 /\ s.MaxNoImprove = 0 /\ s.MinStep = 0

\* C5: after k calls Niter() = k and Neval() is the sum of the returned
\* counts; the no-improvement counter is 0 after an iteration whose best is
\* strictly below the incumbent and one more than before otherwise.
C5_Counters ==
    /\ [](s.niter = calls /\ s.neval = sumN)
    /\ [][ calls' = calls + 1 =>
             IF lowest'.val < LowestBefore
             THEN s'.noimprove = 0
             ELSE s'.noimprove = s.noimprove + 1 ]_solverVars

\* Three calls: an improvement, then two iterations without one, the last
\* failing, all of them reporting evaluations.
C5_Witness ==
    /\ calls = 3 /\ s.noimprove = 2 /\ s.err # Nil /\ sumN = 3 /\ s.best.val = 1

(***************************************************************************)
(* Properties of the evaluators.                                           *)
(***************************************************************************)
\* The positions of the batch of the current Eval call.
InBatch == {points[i].pos : i \in DOMAIN points}
\* The index of the first point of the batch with the position of point i.
FirstOcc(i) ==
    CHOOSE j \in DOMAIN points :
        /\ points[j].pos = points[i].pos
        /\ \A k \in DOMAIN points : points[k].pos = points[i].pos => j <= k
\* The result the objective gives for point i of the batch.
Evaluated(i) == NewPoint(points[i].pos, Objective(points[i].pos).val)
\* The indexes of the batch on which the objective fails.
Failing == {i \in DOMAIN points : points[i].pos \in objFail}
OnceEach(S) == \A q \in Pos : objCalls[q] = IF q \in S THEN 1 ELSE 0

\* C6: SerialEvaler.Eval with ContinueOnErr unset, the objective failing
\* first on the point at index i: Eval returns that error, the results of
\* the indexes 0..i in input order with every slot filled, and n, the
\* number of objective calls made, none of them on a later point.
C6_SerialErrorPrefix ==
    (ev = "serial" /\ evPc = "returned" /\ ~continueOnErr /\ Failing # {}) =>
        LET i == CHOOSE f \in Failing : \A g \in Failing : f <= g
        IN  /\ ~panicked
            /\ out.err = ObjErr(points[i].pos)
            /\ DOMAIN out.results = 0..i
            /\ \A j \in 0..i : out.results[j] = Evaluated(j)
            /\ out.n = Sum(objCalls, Pos)
            /\ OnceEach({points[j].pos : j \in 0..i})

\* C7: with a pure objective that does not fail, SerialEvaler.Eval and
\* ParallelEvaler.Eval call the objective exactly once per distinct position
\* of the batch, n is the number of distinct positions, and the result at
\* every index has the position and the value of the result at the first
\* index with that position.
C7_OncePerDistinctPosition ==
    (ev \in {"serial", "parallel"} /\ evPc = "returned" /\ objFail = {}) =>
        /\ ~panicked
        /\ OnceEach(InBatch)
        /\ out.n = Cardinality(InBatch)
        /\ DOMAIN out.results = DOMAIN points
        /\ \A i \in DOMAIN points :
              /\ out.results[i] # NilPoint
              /\ out.results[i].pos = points[i].pos
              /\ out.results[i] = out.results[FirstOcc(i)]

\* A batch of three points, the third a duplicate of the first, went through
\* the parallel evaluator.
C7_Witness ==
    /\ ev = "parallel" /\ evPc = "returned" /\ objFail = {}
    /\ Length(points) = 3 /\ points[0].pos # points[1].pos
    /\ points[2].pos = points[0].pos
    /\ out.n = 2

\* C8: ParallelEvaler.Eval, whatever the interleaving: one result per input
\* point, results[i] holding the position and the value of points[i]; every
\* distinct position is evaluated exactly once and counted in n also when
\* objective calls fail, and the error returned is then one of theirs.
C8_ParallelOrderAndErrors ==
    (ev = "parallel" /\ evPc = "returned") =>
        /\ ~panicked
        /\ DOMAIN out.results = DOMAIN points
        /\ \A i \in DOMAIN points : out.results[i] = Evaluated(i)
        /\ OnceEach(InBatch)
        /\ out.n = Cardinality(InBatch)
        /\ (Failing # {} => out.err \in {ObjErr(points[i].pos) : i \in Failing})

\* Two workers failed and the error of the first point was received last:
\* the results arrived out of input order.
C8_Witness ==
    /\ ev = "parallel" /\ evPc = "returned"
    /\ Length(points) = 3 /\ points[0].pos # points[1].pos
    /\ points[2].pos = points[0].pos
    /\ objFail = {points[0].pos, points[1].pos}
    /\ out.err = ObjErr(points[0].pos)

\* C9: when ParallelEvaler.Eval returns, every worker it spawned has called
\* the objective, delivered its result and finished, the closing goroutine
\* has finished, one message per worker was consumed and none is left; and
\* inside Eval some goroutine can always take a step (no deadlock), for
\* every batch.
C9_ParallelJoin ==
    /\ (ev = "parallel" /\ evPc = "returned") =>
          /\ ~panicked
          /\ \A i \in DOMAIN wk : wk[i] = IF FirstOcc(i) = i THEN "done" ELSE "none"
          /\ closer = "done" /\ wg = 0 /\ ch = <<>>
          /\ out.n = Cardinality({i \in DOMAIN wk : wk[i] = "done"})
          /\ Sum(objCalls, Pos) = out.n
          /\ \A i \in DOMAIN wk : wk[i] = "done" => out.results[i] # NilPoint
    /\ (ev = "parallel" /\ evPc \in {"spawn", "collect"}) =>
          (~panicked /\ ENABLED ParallelStep)

\* A batch of three points with one position returned: one worker only.
C9_Witness ==
    /\ ev = "parallel" /\ evPc = "returned"
    /\ Length(points) = 3 /\ Cardinality(InBatch) = 1
    /\ out.n = 1 /\ wk[0] = "done"

\* C10: with a pure objective that does not fail, the objective calls made
\* through a CacheEvaler around a serial evaluator number the distinct
\* positions of all the batches given to it so far.
C10_CacheCallsPerDistinct ==
    (ev = "cache" /\ objFail = {}) =>
        (~panicked /\ objCount = Cardinality(submitted))

\* The second batch held a duplicate, a cached position and a new one: one
\* more objective call.
C10_Witness ==
    /\ ev = "cache" /\ evPc = "returned" /\ objFail = {} /\ nEvals = 2
    /\ Length(points) = 3 /\ points[0].pos = points[1].pos
    /\ points[2].pos # points[0].pos
    /\ out.n = 1 /\ objCount = 2 /\ useCount = 2

\* C11: when the wrapped evaluator reports no error, CacheEvaler.Eval
\* returns one result per input point, in input order, each with the
\* position of its point and the objective value there, whatever the mix of
\* cached and new points in the batch.
C11_CacheResultsComplete ==
    (ev = "cache" /\ evPc = "returned" /\ ~panicked /\ out.err = Nil) =>
        /\ DOMAIN out.results = DOMAIN points
        /\ \A i \in DOMAIN points : out.results[i] = Evaluated(i)

\* The indexes of the batch of a CacheEvaler.Eval call that are not cached
\* when the call starts and on which the objective fails.
NewFailing == {i \in DOMAIN points' : Hash(points'[i]) \notin DOMAIN cache
                                      /\ points'[i].pos \in objFail}

\* C12: when the wrapped serial evaluator stops on an objective error (the
\* first new point of the batch on which the objective fails, at index i),
\* CacheEvaler.Eval returns that error, n equal to the number of objective
\* calls of the wrapped evaluator, and the results of the indexes 0..i.
C12_CacheErrorPrefix ==
    [][ (ev = "cache" /\ evPc = "idle" /\ evPc' = "returned" /\ ~continueOnErr
            /\ NewFailing # {}) =>
           LET i == CHOOSE f \in NewFailing : \A g \in NewFailing : f <= g
           IN  /\ ~panicked'
               /\ out'.err = ObjErr(points'[i].pos)
               /\ out'.n = Sum(objCalls', Pos)
               /\ DOMAIN out'.results = 0..i
               /\ \A j \in 0..i :
                     /\ out'.results[j].pos = points'[j].pos
                     /\ out'.results[j].val = Objective(points'[j].pos).val ]_vars

(***************************************************************************)
(* Properties of the particle swarm.                                       *)
(***************************************************************************)
\* A step of Iterate that got results from the evaluator.
IterateStep == itCount' # itCount /\ (swPanicked' \/ swOut'.err = Nil)
\* A step of AddPoint (or no step at all after one).
AddPointStep == itCount' = itCount /\ swArg' \in SharedPoints

\* C13: the value of the incumbent of the swarm never increases; AddPoint(p)
\* replaces the incumbent exactly when p.Val is below its value and changes
\* no particle; Iterate replaces it only by the personal best of a particle,
\* of strictly smaller value.
C13_SwarmIncumbentMonotone ==
    [][ /\ itBest'.val <= itBest.val
        /\ AddPointStep =>
              /\ itBest' = IF swArg'.val < itBest.val THEN swArg' ELSE itBest
              /\ pop' = pop
        /\ (itCount' # itCount /\ itBest' # itBest) =>
              /\ itBest'.val < itBest.val
              /\ \E i \in DOMAIN popMoved' : itBest' = popMoved'[i].best ]_vars

\* After an iteration, AddPoint replaced the incumbent.
C13_Witness ==
    /\ itCount >= 1 /\ swOut.err = Nil /\ swOut.best.val > 2
    /\ itBest = swArg /\ swArg \in SharedPoints

\* C14: the personal best value of a particle never increases: an iteration
\* leaves Best alone or replaces it by the point just evaluated for the
\* particle, of strictly smaller value; the particles that remain are
\* particles of the population as moved.
C14_PersonalBestMonotone ==
    [][ /\ (itCount' = itCount \/ ~IterateStep) => pop' = pop
        /\ IterateStep =>
           /\ DOMAIN popMoved' = DOMAIN pop
           /\ \A i \in DOMAIN pop :
                 /\ popMoved'[i].id = pop[i].id
                 /\ popMoved'[i].best.val <= pop[i].best.val
                 /\ popMoved'[i].best # pop[i].best =>
                       /\ popMoved'[i].best.val < pop[i].best.val
                       /\ popMoved'[i].best.pos = SwarmNearest(pop[i].pos, swCfg.meshStep)
           /\ \A j \in DOMAIN pop' : \E i \in DOMAIN popMoved' : pop'[j] = popMoved'[i] ]_vars

\* The last iteration evaluated every particle, and one of them at a value
\* above its personal best, which it kept.
C14_Witness ==
    /\ itCount = 2 /\ swOut.err = Nil /\ ~swPanicked
    /\ swOut.n = Length(popMoved)
    /\ \E i \in DOMAIN popMoved :
          popMoved[i].best.val <
              SwarmObj(SwarmNearest(popMoved[i].pos - popMoved[i].vel, swCfg.meshStep))

\* C15: after Move the velocity of a particle lies within -vmax..vmax, it is
\* the velocity of the swarm equation cut to that range with its sign kept,
\* and the new position is the old position plus that velocity.
C15_VelocityClamped ==
    [][ IterateStep =>
           \A i \in DOMAIN popMoved' :
               LET q == popMoved'[i]
               IN  /\ -swCfg.vmax <= q.vel /\ q.vel <= swCfg.vmax
                   /\ q.pos = pop[i].pos + q.vel
                   /\ \E r \in RandPairs :
                         LET raw == Inertia * pop[i].vel
                                    + r[1] * (q.best.pos - pop[i].pos)
                                    + r[2] * (itBest.pos - pop[i].pos)
                         IN  q.vel = IF raw > swCfg.vmax THEN swCfg.vmax
                                     ELSE IF raw < -swCfg.vmax THEN -swCfg.vmax
                                     ELSE raw ]_vars

\* With vmax = 1 a particle was cut to -1 and another to 1.
C15_Witness ==
    /\ itCount = 1 /\ swCfg.vmax = 1 /\ swOut.err = Nil
    /\ \E i, j \in DOMAIN popMoved : popMoved[i].vel = -1 /\ popMoved[j].vel = 1

\* C16: Population.Best() returns a particle of the population whose
\* personal best value is minimal; and after an Iterate that got results
\* the value of the incumbent is at most the personal best value of every
\* particle of the population of that iteration.
C16_BestByPersonalBest ==
    /\ [](Length(pop) > 0 =>
             /\ \E i \in DOMAIN pop : PopulationBest(pop) = pop[i]
             /\ \A i \in DOMAIN pop : PopulationBest(pop).best.val <= pop[i].best.val)
    /\ [][ IterateStep =>
              \A i \in DOMAIN popMoved' : itBest'.val <= popMoved'[i].best.val ]_vars

\* The incumbent was taken from the personal best of a particle that the
\* iteration did not evaluate.
C16_Witness ==
    /\ itCount = 1 /\ swOut.err = Nil /\ swOut.n = 1 /\ Length(popMoved) = 2
    /\ itBest = popMoved[1].best
    /\ popMoved[1].best.val < popMoved[0].best.val

(***************************************************************************)
(* Properties of the pattern search method.                                *)
(***************************************************************************)
\* A step that is a call of the pattern Method.Iterate, and one in which
\* the call went on to poll.
PatternStep == ptCount' = ptCount + 1
PolledStep == PatternStep /\ ptKind' \notin {"searcherr", "searchok"}

\* C17: when the search step of Method.Iterate does not succeed and the poll
\* fails without error, the mesh step afterwards is the float64 half of the
\* step before (the half of the smallest positive step, and of 0, is 0), the
\* counter of successive successes is 0, the incumbent is unchanged and is
\* the point returned, and the error returned is ZeroStepErr if the halved
\* step is 0 and nil if it is not.
C17_FailedPollHalves ==
    [][(/\ PolledStep
        /\ ~ptPoll'.panic
        /\ ptPoll'.err = Nil
        /\ ~ptPoll'.success)
       => /\ ptStep' = (IF ptStep >= 1 THEN ptStep - 1 ELSE 0)
          /\ nsuccess' = 0
          /\ ptCurr' = ptCurr
          /\ ptOut'.best = ptCurr
          /\ ptOut'.err = (IF ptStep' = 0 THEN ZeroStepErr ELSE Nil)]_vars

\* A poll has just failed with the step halved to zero, after an iteration
\* that left the step positive.
C17_Witness ==
    /\ ptKind = "pollfail"
    /\ ptCount >= 2
    /\ ptStep = 0
    /\ ptOut.err = ZeroStepErr
    /\ ptOut.best = ptCurr

\* C18 as claimed: in the zero-step scenario the mesh step is halved at most
\* 27 times, and Run() returns with ZeroStepErr and the incumbent at its
\* initial value.
C18_ZeroStepWithin27 ==
    /\ (ExpBias - 27) - ptStep <= 27
    /\ runPc = "done" => /\ runErr = ZeroStepErr
                         /\ ptCurr = NewPoint(128, 0)
                         /\ s.best = NewPoint(128, 0)

\* C18, amended: in the zero-step scenario every iteration halves the mesh
\* step, and Run() returns at the iteration limit, after 100 halvings that
\* leave the step positive, with no error and the incumbent at its initial
\* value.
C18_StopsAtMaxIter ==
    /\ (ExpBias - 27) - ptStep = s.niter
    /\ ptStep > 0
    /\ ptCurr = NewPoint(128, 0)
    /\ ~ptPanicked
    /\ s.err = Nil
    /\ runPc = "loop" => s.niter < 100
    /\ runPc = "done" => /\ s.niter = 100
                         /\ runErr = Nil
                         /\ s.best = NewPoint(128, 0)

\* Run() has returned.
C18_Witness ==
    /\ runPc = "done"
    /\ s.niter = 100
    /\ ptKind = "pollfail"
    /\ ptStep = ExpBias - 127

\* C19: with NsuccessGrow = N > 0 the mesh step is doubled, once, by the
\* N-th successful poll of a run of successful polls that no failed poll
\* interrupts, and the counter of successes then restarts from 0; a failed
\* poll resets the counter; nothing else increases the mesh step.
C19_GrowsAtNthSuccess ==
    [][/\ (PatternStep /\ ptKind' = "pollok" /\ ptCfg.NsuccessGrow > 0)
          => IF ptStreak + 1 = ptCfg.NsuccessGrow
             THEN ptStep' = ptStep + 1 /\ nsuccess' = 0
             ELSE ptStep' = ptStep /\ nsuccess' = ptStreak + 1
       /\ (PatternStep /\ ptKind' = "pollfail") => nsuccess' = 0
       /\ ptStep' > ptStep
          => /\ PatternStep
             /\ ptPoll'.success
             /\ ptStreak + 1 = ptCfg.NsuccessGrow]_vars

\* The second successful poll in a row has doubled the step for N = 2: the
\* step is above every initial step, and the counter is back at 0.
C19_Witness ==
    /\ ptCfg.NsuccessGrow = 2
    /\ ptKind = "pollok"
    /\ ptStep = SkipK + 3
    /\ nsuccess = 0

\* C20: of every Poll made with the objStopper and the SerialEvaler: when
\* the first candidate of the batch that either improves on from.Val or
\* fails is an improving one (a candidate that gets evaluated improves, and
\* no real objective error occurs), Poll returns success = true and a best
\* point with best.Val < from.Val, whatever duplicate positions the batch
\* holds; when no candidate improves or fails, Poll returns success = false
\* and best = from.
C20_PollReturnsImprovement ==
    [][(PolledStep /\ ptCfg.ev = "serial")
       => LET batch == ptPoll'.points
              from == ptPoll'.from
              Stops == {i \in DOMAIN batch :
                           \/ batch[i].pos \in ptCfg.fail
                           \/ PatObj(batch[i].pos) < from.val}
              first == CHOOSE i \in Stops : \A j \in Stops : i <= j
          IN  IF Stops = {}
              THEN /\ ~ptPoll'.panic
                   /\ ~ptPoll'.success
                   /\ ptPoll'.best = from
              ELSE batch[first].pos \notin ptCfg.fail
                   => /\ ~ptPoll'.panic
                      /\ ptPoll'.success
                      /\ ptPoll'.best.val < from.val]_vars

\* C21: of every Iterate call that polls: the error returned is never
\* FoundBetterErr; it is the error of a polled point whose objective call
\* returned a real error whenever there is such a point, also when the
\* parallel evaluator evaluated an improving point in the same batch; and it
\* is nil when found-better signals were the only ones raised.  The points
\* evaluated are those up to the first that improves or fails with the
\* serial evaluator, and all of the batch with the parallel one.
C21_RealErrorForwarded ==
    [][(PolledStep /\ ~ptPoll'.panic)
       => LET batch == ptPoll'.points
              from == ptPoll'.from
              Stops == {i \in DOMAIN batch :
                           \/ batch[i].pos \in ptCfg.fail
                           \/ PatObj(batch[i].pos) < from.val}
              Evald == IF ptCfg.ev = "serial"
                       THEN {i \in DOMAIN batch : \A j \in Stops : i <= j}
                       ELSE DOMAIN batch
              Real == {i \in Evald : batch[i].pos \in ptCfg.fail}
          IN  /\ ptOut'.err # FoundBetterErr
              /\ Real # {} => ptOut'.err \in {ObjErr(batch[i].pos) : i \in Real}
              /\ Real = {} => ptOut'.err \in {Nil, ZeroStepErr}
              /\ (Real = {} /\ Stops \cap Evald # {}) => ptOut'.err = Nil]_vars

\* The particles of pp that Kill does not select, in their order.
RECURSIVE Survivors(_, _, _)
Survivors(pp, gbest, cfg) ==
    IF Length(pp) = 0 THEN pp
    ELSE LET rest == Survivors(Slice(pp, Length(pp) - 1), gbest, cfg)
             last == pp[Length(pp) - 1]
         IN  IF Kill(last, gbest, cfg.xtol, cfg.vtol) THEN rest
             ELSE AppendTo(rest, last)

\* C25: an Iterate whose evaluation succeeds completes, and leaves in the
\* population exactly the moved particles that are not both nearer than
\* x_tol to the incumbent and slower than v_tol, in their order; with a
\* tolerance of 0 nothing is removed.
C25_KillRemovesExactly ==
    [][(~swPanicked /\ IterateStep)
       => /\ ~swPanicked'
          /\ pop' = Survivors(popMoved', itBest', swCfg)
          /\ (swCfg.xtol = 0 \/ swCfg.vtol = 0) => pop' = popMoved']_vars

\* C26 as stated: when the search step succeeds, on return from Iterate the
\* incumbent is the point found and the origin of the mesh is its position.
C26_SearchRecentres ==
    [][(PatternStep /\ ptKind' = "searchok")
       => ptCurr' = ptOut'.best /\ ptOrigin' = ptCurr'.pos]_vars

\* C26, amended: when the search step succeeds, on return from Iterate the
\* incumbent is the point found, which is better than the one before, and
\* Iterate has not moved the origin of the mesh.
C26_SearchKeepsOrigin ==
    [][(PatternStep /\ ptKind' = "searchok")
       => /\ ptCurr' = ptOut'.best
          /\ ptOut'.err = Nil
          /\ ptCurr'.val < ptCurr.val
          /\ ptOrigin' = ptOrigin]_vars

C26_Witness ==
    ptKind = "searchok" /\ ptCurr = ptOut.best /\ ptOrigin # ptCurr.pos

\* C27: in an iteration of the swarm every particle moves from the position
\* it had, not from the point of the mesh that was evaluated for it, and its
\* personal best is kept or becomes that evaluated point, of a strictly
\* lower value; nothing but an iteration changes a particle.
C27_PositionNotProjected ==
    [][ /\ ~IterateStep => pop' = pop
        /\ IterateStep =>
           \A i \in DOMAIN pop :
              LET x == SwarmNearest(pop[i].pos, swCfg.meshStep)
                  evald == [pos |-> x, val |-> SwarmObj(x)]
              IN  /\ popMoved'[i].pos = pop[i].pos + popMoved'[i].vel
                  /\ \/ popMoved'[i].best = pop[i].best
                     \/ /\ i < swOut'.n \/ swPanicked'
                        /\ popMoved'[i].best = evald
                        /\ evald.val < pop[i].best.val ]_vars

\* An evaluated particle stood off the mesh, took the evaluated point of the
\* mesh as its personal best, and moved from where it stood.
C27_Witness ==
    /\ itCount > 0 /\ swOut.err = Nil /\ ~swPanicked
    /\ \E i \in DOMAIN popMoved :
          LET was == popMoved[i].pos - popMoved[i].vel
          IN  /\ i < swOut.n
              /\ SwarmNearest(was, swCfg.meshStep) # was
              /\ popMoved[i].best.pos = SwarmNearest(was, swCfg.meshStep)

\* C28: the batch of every poll starts with the candidates of the kept
\* directions, in their order; and after a poll that returns without a real
\* error the poller keeps at most Nkeep directions, in ascending order of
\* their recorded values, each one kept from before or recorded from a point
\* of this batch whose value is strictly below that of the poll centre.
C28_KeptDirections ==
    [][PolledStep =>
       LET kd == poller.keepdirecs
           cands == skipNear(ptCurr,
                             [i \in DOMAIN kd |->
                                 pointFromDirec(ptCurr, kd[i].dir, ptStep)],
                             0, <<>>)
           kd2 == poller'.keepdirecs
           batch == ptPoll'.points
       IN  /\ Length(batch) >= Length(cands)
           /\ Slice(batch, Length(cands)) = cands
           /\ ptKind' \in {"pollok", "pollfail"} =>
              /\ Length(kd2) <= poller'.Nkeep
              /\ \A i, j \in DOMAIN kd2 : i < j => kd2[i].val <= kd2[j].val
              /\ \A i \in DOMAIN kd2 :
                    \/ \E j \in DOMAIN kd : kd2[i] = kd[j]
                    \/ \E j \in DOMAIN batch :
                          /\ kd2[i].val = PatObj(batch[j].pos)
                          /\ kd2[i].dir = direcbetween(ptCurr, batch[j], ptStep)
                          /\ kd2[i].val < ptCurr.val]_vars

\* A poll whose batch began with the candidate of a kept direction has
\* returned, and the poller keeps two directions of different values.
C28_Witness ==
    /\ ptKind \in {"pollok", "pollfail"}
    /\ Length(ptPoll.points) = 3
    /\ Length(poller.keepdirecs) = 2
    /\ poller.keepdirecs[0].val < poller.keepdirecs[1].val

\* C29: the value of the incumbent of the pattern method never increases,
\* whatever is called and whatever the searcher; an Iterate that returns an
\* error leaves the incumbent as it was, and an Iterate that returns no
\* error returns the incumbent.
C29_PatternIncumbentMonotone ==
    [][ /\ ptCurr'.val <= ptCurr.val
        /\ (PatternStep /\ ~ptPanicked') =>
           /\ ptOut'.err # Nil => ptCurr' = ptCurr
           /\ ptOut'.err = Nil => ptOut'.best = ptCurr' ]_vars

\* The wrapped searcher has found a better point than the start, and a poll
\* has improved on it since: the point returned is the incumbent.
C29_Witness ==
    /\ ptCfg.searcher = "wrap" /\ ptCfg.obj = "abs"
    /\ ptCount = 3
    /\ ptKind = "pollok"
    /\ ptOut.best = ptCurr
    /\ ptCurr.val < 1

C22_BoundedWithinBounds ==
    near.called => mesh.lower <= near.bounded /\ near.bounded <= mesh.upper

\* C23: with step > 0 Infinite.Nearest returns origin + k*step, where
\* q = p - origin and k is floor(q/step), one more iff the fractional
\* remainder of q/step exceeds 0.5, for any origin, sign of q and step.
C23_RoundsToNearest ==
    (near.called /\ mesh.step > 0)
    => LET q == near.p - mesh.origin
           k == (q \div mesh.step)
                + (IF 2 * (q % mesh.step) > mesh.step THEN 1 ELSE 0)
       IN  near.infinite = mesh.origin + k * mesh.step

(***************************************************************************)
(* Properties of the objective logger.                                     *)
(***************************************************************************)
\* C24: with an ObjectiveLogger as the objective of a ParallelEvaler batch,
\* two workers are never inside the sink write at the same time, and the
\* sink holds exactly one record for every objective call that has finished
\* its write.
C24_LoggerThreadSafe ==
    LET inside == {i \in DOMAIN wk : wk[i] = "logging"}
    IN  /\ Cardinality(inside) <= 1
        /\ Len(logger.sink) + Cardinality(inside) = logger.calls

====
